---- MODULE Spec2Model ----
(***************************************************************************)
(* Progress & notification engine of the fitness progress-photo app.       *)
(* State machine of src/src/services/StorageService.ts: the persisted      *)
(* AsyncStorage keys, the photo directory, the wall clock read by          *)
(* `new Date()` / `Date.now()`, and the in-flight savePhoto calls, one     *)
(* step per stretch of code between two awaits.                            *)
(*                                                                         *)
(* Time is counted in clock ticks; DayTicks ticks make the 24 hours that   *)
(* the code writes as 1000 * 60 * 60 * 24 ms.  All Date reads made by one  *)
(* synchronous stretch of code (no await in between) see the same tick.    *)
(* Local midnight falls on the multiples of DayTicks.                      *)
(*                                                                         *)
(* Of the file system only the existence of PHOTOS_DIR is kept: no code    *)
(* of the service reads the copied files back.  Of app_state the field     *)
(* lastActiveDate, which nothing reads, is left out.                       *)
(*                                                                         *)
(* The second half is src/src/services/NotificationService.ts with its     *)
(* callers (the useNotifications hook and PhotoPreviewScreen.handleSave):  *)
(* the stored settings and daily-reminder id, the permission, the          *)
(* notifications the OS holds scheduled and the ones it has presented,     *)
(* and the running operations, again one step per stretch between awaits.  *)
(* An operation occupies a slot from its call until it has returned and    *)
(* the reschedule it started without awaiting has settled.                 *)
(***************************************************************************)
EXTENDS Integers, Sequences, FiniteSets, TLC

\* ---------------------------------------------------------------- bounds
DayTicks == 2
MaxClock == 4
MaxPhotos == 2
MaxSetBacks == 1
\* the last tick reached when the clock is set back or calls overlap
Horizon == 2

\* two overlapping calls of savePhoto (async calls of one JS thread)
Calls == {"c1", "c2"}
\* the call made by the save button of the photo preview screen
App == "c1"
\* the angles passed to savePhoto (of 'front' | 'side' | 'back')
Angles == {"front"}

\* the identifiers expo-notifications hands out in one run of the model
MaxIds == 2
\* the longest streak a celebration text is selected for
MaxStreak == 120
\* operations of the notification code that may be running at once
Runs == {"r1", "r2"}
\* the one operation that runs when the operations are called one by one
Sole == "r1"

VARIABLES
    clock,          \* the device wall clock (ticks since the epoch)
    setBacks,       \* how many times the clock has been set back
    user_profile,   \* AsyncStorage 'user_profile'  : Null or Some(profile)
    user_progress,  \* AsyncStorage 'user_progress' : Null or Some(UserProgress)
    app_state,      \* AsyncStorage 'app_state'     : Null or Some(appState)
    photosDir,      \* whether the directory PHOTOS_DIR exists
    pc,             \* per call of savePhoto: where it stands
    frame,          \* per call of savePhoto: its local variables
    permission,     \* whether the OS reports notification permission 'granted'
    notification_settings,  \* AsyncStorage 'notifications_notification_settings'
    daily_reminder_id,      \* AsyncStorage 'notifications_daily_reminder_id'
    scheduled,      \* the notifications the OS holds scheduled (live)
    nextId,         \* the identifiers the OS has handed out so far
    delivered,      \* the notifications presented at once (trigger: null)
    task,           \* per running operation of the notification code: where it stands
    lastDone,       \* the operation of the notification code that completed last,
                    \* when, whether it overlapped another, and whether the same
                    \* operation had completed just before it on the same day
    copy,           \* the streak and the body text last selected for a celebration
    initState       \* the state of the useStorageInitialization hook

\* the state of the notification code
notification == <<permission, notification_settings, daily_reminder_id, scheduled,
                  nextId, delivered, task, lastDone>>

\* the state the hooks and the celebration text hold
screens == <<copy, initState>>

vars == <<clock, setBacks, user_profile, user_progress, app_state, photosDir, pc, frame,
          permission, notification_settings, daily_reminder_id, scheduled,
          nextId, delivered, task, lastDone, copy, initState>>

\* ------------------------------------------------------- nullable values
Null == << >>
Some(x) == << x >>
IsNull(v) == v = << >>
Val(v) == v[1]

\* `lastPhotoDate: Date | null`: the null of a Date field
NullDate == -1

Abs(x) == IF x < 0 THEN -x ELSE x
\* Math.ceil(n / d) and Math.floor(n / d) for d > 0
Ceil(n, d) == -((-n) \div d)
Floor(n, d) == n \div d

\* the calendar day (local zone) an instant falls on
calendarDay(t) == t \div DayTicks

\* ------------------------------------------------------- StorageService
\* calculateDayNumber(startDate), `now` being its `new Date()`
calculateDayNumber(startDate, now) ==
    LET diffTime == Abs(now - startDate)
        diffDays == Ceil(diffTime, DayTicks)
    IN  diffDays

\* updateStreak with the same-day branch counting the photo again
updateStreakSameDayCounts(progress, today) ==
    LET lastPhotoDate == progress.lastPhotoDate
        daysDiff == Floor(today - lastPhotoDate, DayTicks)
        streaked ==
            IF lastPhotoDate = NullDate
            THEN [progress EXCEPT !.currentStreak = 1]
            ELSE IF daysDiff = 1 \/ daysDiff = 0
                 THEN [progress EXCEPT !.currentStreak = @ + 1]
                 ELSE [progress EXCEPT !.currentStreak = 1]
    IN  IF streaked.currentStreak > streaked.longestStreak
        THEN [streaked EXCEPT !.longestStreak = streaked.currentStreak]
        ELSE streaked

\* updateStreak(progress), `today` being its `new Date()`
updateStreak(progress, today) ==
    LET lastPhotoDate == progress.lastPhotoDate
        daysDiff == Floor(today - lastPhotoDate, DayTicks)
        streaked ==
            IF lastPhotoDate = NullDate
            THEN [progress EXCEPT !.currentStreak = 1]
            ELSE IF daysDiff = 1
                 THEN [progress EXCEPT !.currentStreak = @ + 1]
                 ELSE IF daysDiff = 0
                      THEN progress
                      ELSE [progress EXCEPT !.currentStreak = 1]
    IN  IF streaked.currentStreak > streaked.longestStreak
        THEN [streaked EXCEPT !.longestStreak = streaked.currentStreak]
        ELSE streaked

\* initialProgress with the streak started at 1
initialProgressStreakOne(now) ==
    [ startDate     |-> now,
      currentStreak |-> 1,
      longestStreak |-> 0,
      totalPhotos   |-> 0,
      lastPhotoDate |-> NullDate,
      photos        |-> << >> ]

\* the initialProgress object of initializeUser
initialProgress(now) ==
    [ startDate     |-> now,
      currentStreak |-> 0,
      longestStreak |-> 0,
      totalPhotos   |-> 0,
      lastPhotoDate |-> NullDate,
      photos        |-> << >> ]

\* getUserProgress(): JSON.parse of the stored text, dates revived with
\* new Date(isoString).  JSON.stringify writes a Date as its ISO string at
\* millisecond precision, which new Date() reads back to the same instant,
\* and a null lastPhotoDate is left null, so the stored record comes back
\* field for field.
getUserProgress(stored) ==
    IF IsNull(stored) THEN Null
    ELSE LET data == Val(stored) IN
         Some([ startDate     |-> data.startDate,
                currentStreak |-> data.currentStreak,
                longestStreak |-> data.longestStreak,
                totalPhotos   |-> data.totalPhotos,
                lastPhotoDate |-> IF data.lastPhotoDate # NullDate
                                  THEN data.lastPhotoDate ELSE NullDate,
                photos        |-> [i \in 1..Len(data.photos) |->
                                     [data.photos[i] EXCEPT !.timestamp = @]] ])

\* the locals of a call that is not running
NoFrame == [ angle |-> "none", progress |-> Null, dayNumber |-> 0,
             photoId |-> << >>, error |-> "none" ]

\* the locals of a call that has thrown: the error it rethrows
Thrown(error) == [NoFrame EXCEPT !.error = error]

InFlight(c) == pc[c] \in {"copy", "write"}

\* the locals of an operation slot that runs nothing
NoTask == [ op |-> "none", pc |-> "idle", daily |-> "idle", weekly |-> "idle",
            arg |-> Null, settings |-> Null, existingId |-> Null,
            identifier |-> Null,
            reschedule |-> FALSE, granted |-> FALSE, trigger |-> 0,
            overlapped |-> FALSE, value |-> Null, result |-> Null ]

Init ==
    /\ permission = FALSE
    /\ notification_settings = Null
    /\ daily_reminder_id = Null
    /\ scheduled = {}
    /\ nextId = 0
    /\ delivered = << >>
    /\ task = [r \in Runs |-> NoTask]
    /\ lastDone = [ op |-> "none", arg |-> Null, overlapped |-> FALSE, day |-> 0,
                    again |-> FALSE ]
    /\ copy = Null
    /\ initState = [ isLoading |-> TRUE, isInitialized |-> FALSE,
                     needsOnboarding |-> FALSE, error |-> Null ]
    /\ clock = 0
    /\ setBacks = 0
    /\ user_profile = Null
    /\ user_progress = Null
    /\ app_state = Null
    /\ photosDir = FALSE
    /\ pc = [c \in Calls |-> "idle"]
    /\ frame = [c \in Calls |-> NoFrame]

\* ---------------------------------------------------------------- clock
\* time passes
Tick ==
    /\ clock < MaxClock
    /\ clock' = clock + 1
    /\ UNCHANGED <<setBacks, user_profile, user_progress, app_state, photosDir, pc, frame>>
    /\ UNCHANGED notification
    /\ UNCHANGED screens

\* time passes, up to the horizon
TickWithin ==
    /\ clock < Horizon
    /\ Tick

\* the device clock is set back (user, time zone or network time change)
ClockBack ==
    /\ setBacks < MaxSetBacks
    /\ setBacks' = setBacks + 1
    /\ \E t \in 0..(clock - 1) : clock' = t
    /\ UNCHANGED <<user_profile, user_progress, app_state, photosDir, pc, frame>>
    /\ UNCHANGED notification
    /\ UNCHANGED screens

\* ------------------------------------------------------- initializeUser
\* initializeUser(userProfile): three setItem calls, each of which may
\* reject; a rejection leaves the keys written so far.
initializeUserWrites(failAt) ==
    /\ user_profile' = IF failAt = "user_profile" THEN user_profile
                       ELSE Some("profile")
    /\ user_progress' = IF failAt \in {"user_profile", "user_progress"}
                        THEN user_progress
                        ELSE Some(initialProgress(clock))
    /\ app_state' = IF failAt = "none"
                    THEN Some([ isInitialized |-> TRUE,
                                onboardingCompleted |-> TRUE ])
                    ELSE app_state

initializeUser ==
    \E failAt \in {"none", "user_profile", "user_progress", "app_state"} :
        /\ initializeUserWrites(failAt)
        /\ UNCHANGED <<clock, setBacks, photosDir, pc, frame>>
        /\ UNCHANGED notification
        /\ UNCHANGED screens

\* ------------------------------------------------------------ savePhoto
\* savePhoto up to the await of FileSystem.copyAsync: initialize(),
\* getUserProgress(), the day number and the photo id.
SavePhotoRead(c) ==
    /\ ~InFlight(c)
    /\ \E angle \in Angles, initOk \in BOOLEAN :
        LET progress == getUserProgress(user_progress)
            dayNumber == calculateDayNumber(Val(progress).startDate, clock)
            photoId == <<dayNumber, angle, clock>>
        IN  IF ~initOk
            THEN /\ pc' = [pc EXCEPT ![c] = "rejected"]
                 /\ frame' = [frame EXCEPT ![c] = Thrown("initialize")]
                 /\ UNCHANGED photosDir
            ELSE /\ photosDir' = TRUE
                 /\ IF IsNull(progress)
                    THEN /\ pc' = [pc EXCEPT ![c] = "rejected"]
                         /\ frame' = [frame EXCEPT ![c] = Thrown("User progress not found")]
                    ELSE /\ Len(Val(progress).photos) < MaxPhotos
                         /\ pc' = [pc EXCEPT ![c] = "copy"]
                         /\ frame' = [frame EXCEPT ![c] =
                                        [NoFrame EXCEPT !.angle = angle,
                                                        !.progress = progress,
                                                        !.dayNumber = dayNumber,
                                                        !.photoId = photoId]]
    /\ UNCHANGED <<clock, setBacks, user_profile, user_progress, app_state>>
    /\ UNCHANGED notification
    /\ UNCHANGED screens

\* SavePhotoCopy with user_progress written before the copy has succeeded
SavePhotoCopyWritesFirst(c) ==
    /\ pc[c] = "copy"
    /\ \E outcome \in {"ok", "copyAsync", "getInfoAsync"} :
        /\ outcome # "copyAsync" => photosDir
        /\ pc' = [pc EXCEPT ![c] = IF outcome = "ok" THEN "write" ELSE "rejected"]
        /\ frame' = [frame EXCEPT ![c] = IF outcome = "ok" THEN @ ELSE Thrown(outcome)]
        /\ user_progress' = Some([Val(frame[c].progress) EXCEPT
                                    !.photos = Append(@, [ id |-> frame[c].photoId,
                                                           dayNumber |-> frame[c].dayNumber,
                                                           angle |-> frame[c].angle,
                                                           timestamp |-> clock ]),
                                    !.totalPhotos = @ + 1,
                                    !.lastPhotoDate = clock])
    /\ UNCHANGED <<clock, setBacks, user_profile, app_state, photosDir>>
    /\ UNCHANGED notification
    /\ UNCHANGED screens

\* savePhoto from FileSystem.copyAsync to the await of getInfoAsync
SavePhotoCopy(c) ==
    /\ pc[c] = "copy"
    /\ \E outcome \in {"ok", "copyAsync", "getInfoAsync"} :
        /\ outcome # "copyAsync" => photosDir
        /\ pc' = [pc EXCEPT ![c] = IF outcome = "ok" THEN "write" ELSE "rejected"]
        /\ frame' = [frame EXCEPT ![c] = IF outcome = "ok" THEN @ ELSE Thrown(outcome)]
    /\ UNCHANGED <<clock, setBacks, user_profile, user_progress, app_state, photosDir>>
    /\ UNCHANGED notification
    /\ UNCHANGED screens

\* the storedPhoto object of savePhoto
storedPhoto(f, now) ==
    [ id |-> f.photoId, dayNumber |-> f.dayNumber, angle |-> f.angle,
      timestamp |-> now ]

\* updateProgress without the recount of totalPhotos
updateProgressNoCount(progress, photo, now) ==
    LET pushed == [progress EXCEPT !.photos = Append(@, photo)]
        dated == [pushed EXCEPT !.lastPhotoDate = now]
    IN  updateStreak(dated, now)

\* updateProgress that never moves lastPhotoDate back
updateProgressLatestDate(progress, photo, now) ==
    LET pushed == [progress EXCEPT !.photos = Append(@, photo)]
        counted == [pushed EXCEPT !.totalPhotos = Len(pushed.photos)]
        dated == [counted EXCEPT !.lastPhotoDate = IF @ > now THEN @ ELSE now]
    IN  updateStreak(dated, now)

\* updateProgress with totalPhotos taken before the record is pushed
updateProgressCountBeforePush(progress, photo, now) ==
    LET counted == [progress EXCEPT !.totalPhotos = Len(progress.photos)]
        pushed == [counted EXCEPT !.photos = Append(@, photo)]
        dated == [pushed EXCEPT !.lastPhotoDate = now]
    IN  updateStreak(dated, now)

\* the update with the record put in front of the list
updateProgressUnshift(progress, photo, now) ==
    LET pushed == [progress EXCEPT !.photos = <<photo>> \o @]
        counted == [pushed EXCEPT !.totalPhotos = Len(pushed.photos)]
        dated == [counted EXCEPT !.lastPhotoDate = now]
    IN  updateStreak(dated, now)

\* the "Update progress" and "Update streak" statements of savePhoto,
\* applied to the progress object the call read
updateProgress(progress, photo, now) ==
    LET pushed == [progress EXCEPT !.photos = Append(@, photo)]
        counted == [pushed EXCEPT !.totalPhotos = Len(pushed.photos)]
        dated == [counted EXCEPT !.lastPhotoDate = now]
    IN  updateStreak(dated, now)

\* savePhoto from the storedPhoto object to its return: the progress
\* update, updateStreak and the setItem of user_progress, which may reject
\* and then stores nothing.
SavePhotoWrite(c) ==
    /\ pc[c] = "write"
    /\ \E setOk \in BOOLEAN :
        LET photo == storedPhoto(frame[c], clock)
            progress == updateProgress(Val(frame[c].progress), photo, clock)
        IN  IF setOk
            THEN /\ user_progress' = Some(progress)
                 /\ pc' = [pc EXCEPT ![c] = "resolved"]
                 /\ frame' = [frame EXCEPT ![c] = NoFrame]
            ELSE /\ user_progress' = user_progress
                 /\ pc' = [pc EXCEPT ![c] = "rejected"]
                 /\ frame' = [frame EXCEPT ![c] = Thrown("setItem")]
    /\ UNCHANGED <<clock, setBacks, user_profile, app_state, photosDir>>
    /\ UNCHANGED notification
    /\ UNCHANGED screens

\* --------------------------------------------------------- clearAllData
\* clearAllData(): multiRemove of the three keys, then the photo directory
\* is deleted when it exists; either call may reject.
clearAllDataWrites(outcome) ==
    /\ IF outcome = "multiRemove"
       THEN UNCHANGED <<user_profile, user_progress, app_state>>
       ELSE /\ user_profile' = Null
            /\ user_progress' = Null
            /\ app_state' = Null
    /\ outcome = "deleteAsync" => photosDir
    /\ photosDir' = IF outcome = "ok" THEN FALSE ELSE photosDir

clearAllData ==
    \E outcome \in {"ok", "multiRemove", "deleteAsync"} :
        /\ clearAllDataWrites(outcome)
        /\ UNCHANGED <<clock, setBacks, pc, frame>>
        /\ UNCHANGED notification
        /\ UNCHANGED screens

\* ----------------------------------------------- useStorageInitialization
\* StorageService.isUserInitialized(): the synchronous check, which
\* answers true without reading the storage
isUserInitialized == TRUE

\* the hook state after a check or an operation that succeeded
Settled(initialized) ==
    [ isLoading |-> FALSE, isInitialized |-> initialized,
      needsOnboarding |-> ~initialized, error |-> Null ]

\* the hook state after an operation that threw: the catch sets the
\* error and leaves isInitialized and needsOnboarding as they were
Failed(message) ==
    [initState EXCEPT !.isLoading = FALSE, !.error = Some(message)]

\* checkInitialization(), run when the hook mounts
checkInitialization ==
    /\ initState' = IF isUserInitialized THEN Settled(TRUE) ELSE Settled(FALSE)
    /\ UNCHANGED copy
    /\ UNCHANGED notification
    /\ UNCHANGED <<clock, setBacks, user_profile, user_progress, app_state, photosDir, pc, frame>>

\* initializeUser(profile) of the hook: StorageService.initializeUser
\* awaited, then the state set
useInitializeUser ==
    \E failAt \in {"none", "user_profile", "user_progress", "app_state"} :
        /\ initializeUserWrites(failAt)
        /\ initState' = IF failAt = "none" THEN Settled(TRUE)
                        ELSE Failed("Failed to initialize user")
        /\ UNCHANGED copy
        /\ UNCHANGED notification
        /\ UNCHANGED <<clock, setBacks, photosDir, pc, frame>>

\* resetUser() of the hook: StorageService.clearAllData awaited, then the
\* state set
resetUser ==
    \E outcome \in {"ok", "multiRemove", "deleteAsync"} :
        /\ clearAllDataWrites(outcome)
        /\ initState' = IF outcome = "ok" THEN Settled(FALSE)
                        ELSE Failed("Failed to reset user")
        /\ UNCHANGED copy
        /\ UNCHANGED notification
        /\ UNCHANGED <<clock, setBacks, pc, frame>>

\* -------------------------------------------------- NotificationService
\* DEFAULT_SETTINGS
DEFAULT_SETTINGS ==
    [ dailyReminder     |-> [ enabled |-> TRUE, time |-> <<"1", "8", ":", "0", "0">> ],
      streakCelebration |-> [ enabled |-> TRUE,
                              milestones |-> <<3, 7, 14, 30, 60, 90, 180, 365>> ],
      weeklyProgress    |-> [ enabled |-> TRUE, day |-> 0, time |-> <<"1", "0", ":", "0", "0">> ],
      graceReminder     |-> [ enabled |-> TRUE, hoursAfterMissed |-> 12 ] ]

\* a NotificationSettings object as the settings screen builds it: the
\* defaults with the switches and the reminder time set
settingsWith(daily, time, weekly, grace, celebration) ==
    [DEFAULT_SETTINGS EXCEPT !.dailyReminder.enabled = daily,
                             !.dailyReminder.time = time,
                             !.weeklyProgress.enabled = weekly,
                             !.graceReminder.enabled = grace,
                             !.streakCelebration.enabled = celebration]

\* the NotificationSettings objects passed to saveSettings
SettingsInputs ==
    { settingsWith(d, t, w, g, TRUE) :
        d \in BOOLEAN, t \in {<<"1", "8", ":", "0", "0">>, <<"0", "6", ":", "0", "0">>}, w \in BOOLEAN, g \in BOOLEAN }
\* those that differ in the daily and weekly switches only
RescheduleInputs ==
    { settingsWith(d, <<"1", "8", ":", "0", "0">>, w, TRUE, TRUE) : d \in BOOLEAN, w \in BOOLEAN }
\* those that differ in the celebration switch only
CelebrationInputs ==
    { settingsWith(TRUE, <<"1", "8", ":", "0", "0">>, TRUE, TRUE, c) : c \in BOOLEAN }
\* an early reminder time, with the grace reminder on or off
ForegroundInputs ==
    { settingsWith(TRUE, <<"0", "6", ":", "0", "0">>, TRUE, g, TRUE) : g \in BOOLEAN }

\* settings objects nothing has validated: a time of day that is no
\* 24-hour HH:MM, a milestone list with a duplicate
InvalidInputs ==
    { settingsWith(TRUE, <<"2", "5", ":", "0", "0">>, TRUE, TRUE, TRUE),
      [DEFAULT_SETTINGS EXCEPT !.streakCelebration.milestones = <<3, 3, 7>>] }
\* the settings objects of a settings screen without validation
EditedInputs ==
    InvalidInputs \cup { settingsWith(FALSE, <<"0", "6", ":", "0", "0">>, FALSE, TRUE, TRUE) }
\* the partial settings objects passed to updateSettings
UpdateInputs ==
    { [ dailyReminder |-> [ enabled |-> TRUE, time |-> <<"0", "7", ":", "3", "0">> ] ],
      [ graceReminder |-> [ enabled |-> FALSE, hoursAfterMissed |-> 12 ] ] }

\* the streakDays passed to sendStreakCelebration
StreakInputs == {0, 7, 8}

\* the decimal digits; a string is the sequence of its characters
Digits == <<"0", "1", "2", "3", "4", "5", "6", "7", "8", "9">>
isDigit(ch) == \E d \in 1..10 : Digits[d] = ch
digitValue(ch) == (CHOOSE d \in 1..10 : Digits[d] = ch) - 1

\* the value Number() makes of a text that is no number
NaN == -1

\* Number(text): the empty text is 0, a text of digits its decimal value
RECURSIVE Number(_)
Number(text) ==
    IF Len(text) = 0 THEN 0
    ELSE IF \E i \in 1..Len(text) : ~isDigit(text[i]) THEN NaN
    ELSE Number(SubSeq(text, 1, Len(text) - 1)) * 10 + digitValue(text[Len(text)])

\* text.split(':')
RECURSIVE split(_)
split(text) ==
    IF \A i \in 1..Len(text) : text[i] # ":"
    THEN <<text>>
    ELSE LET colon == CHOOSE i \in 1..Len(text) :
                        /\ text[i] = ":"
                        /\ \A j \in 1..(i - 1) : text[j] # ":"
         IN  <<SubSeq(text, 1, colon - 1)>> \o split(SubSeq(text, colon + 1, Len(text)))

\* time.split(':').map(Number)
splitTime(time) ==
    LET parts == split(time)
    IN  [i \in 1..Len(parts) |-> Number(parts[i])]

\* milestones.includes(streakDays)
includes(milestones, streakDays) ==
    \E i \in 1..Len(milestones) : milestones[i] = streakDays

\* the hours since the epoch of an instant: Date.getHours() counted on
\* from the epoch, which is what setHours(getHours() + n) adds to
hoursAt(t) == (t * 24) \div DayTicks

\* `now > reminderTime`, reminderTime being today with
\* setHours(reminderHour, reminderMinute, 0, 0)
pastReminderTime(now, time) ==
    LET hm == splitTime(time)
    IN  (now % DayTicks) * 24 * 60 > (hm[1] * 60 + hm[2]) * DayTicks

\* getSettings whose fallback has the daily reminder switched off
getSettingsReminderOff(stored) ==
    IF IsNull(stored)
    THEN [DEFAULT_SETTINGS EXCEPT !.dailyReminder.enabled = FALSE]
    ELSE Val(stored)

\* what getSettings() resolves to: DEFAULT_SETTINGS when nothing is
\* stored, else JSON.parse of the stored text (booleans, numbers, strings
\* and arrays of numbers come back from JSON.stringify as they went in)
getSettings(stored) ==
    IF IsNull(stored) THEN DEFAULT_SETTINGS ELSE Val(stored)

\* the value of an async call whose result is awaited
awaited(value) == Some(value)

\* What a caller holds that uses the result of an async method without
\* await (`const settings = this.getSettings()`, getSettings being
\* declared `async`): the Promise, an object with none of the fields of
\* the value it resolves to.  It is written Null; reading a field of a
\* field of it (settings.dailyReminder.enabled) throws a TypeError.
unawaited(value) == Null

\* storageService.hasPhotoToday(): whether a photo exists for the current
\* calendar day
hasPhotoToday(now) ==
    LET progress == getUserProgress(user_progress)
    IN  /\ ~IsNull(progress)
        /\ Val(progress).lastPhotoDate # NullDate
        /\ calendarDay(Val(progress).lastPhotoDate) = calendarDay(now)

\* { ...currentSettings, ...updates }: the own fields of both objects,
\* those of updates winning; a Promise has no own fields
spread(currentSettings, updates) ==
    IF IsNull(currentSettings)
    THEN updates
    ELSE [ key \in DOMAIN Val(currentSettings) \cup DOMAIN updates |->
             IF key \in DOMAIN updates THEN updates[key]
             ELSE Val(currentSettings)[key] ]

\* updateSettings(updates), of NotificationService as of useNotifications:
\* the spread of the un-awaited getSettings() and the updates, then
\* saveSettings up to its await of storage.set
updateSettings(t, updates) ==
    [t EXCEPT !.pc = "set",
              !.value = Some(spread(unawaited(getSettings(notification_settings)), updates))]

\* the scheduled-notification requests
dailyRequest(id, time) ==
    [ id |-> id, type |-> "daily_reminder",
      trigger |-> [ weekday |-> 0, hour |-> splitTime(time)[1],
                    minute |-> splitTime(time)[2], repeats |-> TRUE, date |-> 0 ] ]
weeklyRequest(id, day, time) ==
    [ id |-> id, type |-> "weekly_progress",
      trigger |-> [ weekday |-> day + 1, hour |-> splitTime(time)[1],
                    minute |-> splitTime(time)[2], repeats |-> TRUE, date |-> 0 ] ]
graceRequest(id, date) ==
    [ id |-> id, type |-> "grace_reminder",
      trigger |-> [ weekday |-> 0, hour |-> 0, minute |-> 0, repeats |-> FALSE,
                    date |-> date ] ]

\* the part of the state one step of the notification code may change
Same(t) ==
    [ task |-> t, settings |-> notification_settings, dailyId |-> daily_reminder_id,
      scheduled |-> scheduled, nextId |-> nextId, delivered |-> delivered ]

\* ---- the synchronous start of each method, up to its first await
\* scheduleDailyReminder(): throws at `settings.dailyReminder.enabled`
\* (caught and logged) unless the settings are there, then goes into
\* cancelDailyReminder up to its await of storage.getString
scheduleDailyReminder(t) ==
    LET settings == unawaited(getSettings(notification_settings))
    IN  IF IsNull(settings)
        THEN [t EXCEPT !.daily = "done"]
        ELSE [t EXCEPT !.daily = "getString", !.settings = settings,
                       !.reschedule = Val(settings).dailyReminder.enabled]

\* cancelDailyReminder() up to its await of storage.getString
cancelDailyReminder(t) ==
    [t EXCEPT !.daily = "getString", !.reschedule = FALSE]

\* scheduleWeeklyProgress() up to its await of scheduleNotificationAsync
scheduleWeeklyProgress(t) ==
    LET settings == unawaited(getSettings(notification_settings))
    IN  IF IsNull(settings)
        THEN [t EXCEPT !.weekly = "done"]
        ELSE IF ~Val(settings).weeklyProgress.enabled
             THEN [t EXCEPT !.weekly = "done"]
             ELSE [t EXCEPT !.weekly = "schedule", !.settings = settings]

\* scheduleGraceReminder() up to its await of scheduleNotificationAsync;
\* `after` is where its caller goes on when it returns
scheduleGraceReminder(t, now, after) ==
    LET settings == unawaited(getSettings(notification_settings))
    IN  IF IsNull(settings)
        THEN [t EXCEPT !.pc = after]
        ELSE IF ~Val(settings).graceReminder.enabled
             THEN [t EXCEPT !.pc = after]
             ELSE [t EXCEPT !.pc = "graceSchedule",
                            !.trigger = hoursAt(now) + Val(settings).graceReminder.hoursAfterMissed]

\* the body text with the first tier ending a day early
bodyForEarly(streakDays) ==
    IF streakDays < 7 THEN "You're building momentum! Keep going strong!"
    ELSE IF streakDays <= 30
         THEN "Amazing consistency! Your dedication is showing results!"
    ELSE IF streakDays <= 90 THEN "Incredible! You're a progress tracking champion!"
    ELSE "LEGENDARY! You're an inspiration to everyone!"

\* the body text sendStreakCelebration selects for streakDays
bodyFor(streakDays) ==
    IF streakDays <= 7 THEN "You're building momentum! Keep going strong!"
    ELSE IF streakDays <= 30
         THEN "Amazing consistency! Your dedication is showing results!"
    ELSE IF streakDays <= 90 THEN "Incredible! You're a progress tracking champion!"
    ELSE "LEGENDARY! You're an inspiration to everyone!"

\* sendStreakCelebration(streakDays) up to its await of
\* scheduleNotificationAsync
sendStreakCelebration(t, streakDays) ==
    LET settings == unawaited(getSettings(notification_settings))
    IN  IF IsNull(settings)
        THEN [t EXCEPT !.pc = "end"]
        ELSE IF ~Val(settings).streakCelebration.enabled
             THEN [t EXCEPT !.pc = "end"]
             ELSE IF ~includes(Val(settings).streakCelebration.milestones, streakDays)
                  THEN [t EXCEPT !.pc = "end"]
                  ELSE [t EXCEPT !.pc = "send"]

\* handleAppForeground that schedules the grace reminder whatever the
\* photos, the settings and the time of day are
handleAppForegroundUnchecked(t, now) ==
    [t EXCEPT !.pc = "graceSchedule",
              !.trigger = hoursAt(now) + DEFAULT_SETTINGS.graceReminder.hoursAfterMissed]

\* handleAppForeground() of useNotifications up to its first await.  With
\* no photo today `settings.graceReminder.enabled` is evaluated on the
\* un-awaited getSettings() and throws into the catch of the handler,
\* which skips the badge reset as well.
handleAppForeground(t, now) ==
    LET photoToday == hasPhotoToday(now)
        settings == unawaited(getSettings(notification_settings))
    IN  IF photoToday
        THEN [t EXCEPT !.pc = "badge"]
        ELSE IF IsNull(settings)
             THEN [t EXCEPT !.pc = "end"]
             ELSE IF /\ Val(settings).graceReminder.enabled
                     /\ pastReminderTime(now, Val(settings).dailyReminder.time)
                  THEN scheduleGraceReminder(t, now, "badge")
                  ELSE [t EXCEPT !.pc = "badge"]

\* what each operation is called with
Arguments(op, inputs) ==
    CASE op = "saveSettings" -> { Some(s) : s \in inputs }
      [] op = "sendStreakCelebration" -> { Some(n) : n \in StreakInputs }
      [] op = "updateSettings" -> { Some(u) : u \in UpdateInputs }
      [] OTHER -> { Null }

\* a call of operation op with argument arg, run up to its first await
begin(op, arg, now) ==
    LET t == [NoTask EXCEPT !.op = op, !.arg = arg]
        alone == [t EXCEPT !.pc = "all", !.daily = "done", !.weekly = "done"]
    IN  CASE op = "saveSettings" -> [t EXCEPT !.pc = "set", !.value = arg]
          [] op = "updateSettings" -> updateSettings(t, Val(arg))
          [] op = "getSettings" -> [t EXCEPT !.pc = "read"]
          [] op = "scheduleAllNotifications" -> [t EXCEPT !.pc = "cancelAll"]
          [] op = "cancelAllNotifications" -> [t EXCEPT !.pc = "cancelOnly"]
          [] op = "scheduleDailyReminder" -> scheduleDailyReminder(alone)
          [] op = "cancelDailyReminder" -> cancelDailyReminder(alone)
          [] op = "scheduleWeeklyProgress" -> scheduleWeeklyProgress(alone)
          [] op = "scheduleGraceReminder" -> scheduleGraceReminder(t, now, "end")
          [] op = "sendStreakCelebration" -> sendStreakCelebration(t, Val(arg))
          [] op = "handleAppForeground" -> handleAppForeground(t, now)

\* ---- the steps from one await to the next; `ok` is whether the awaited
\* call resolved (every method catches and logs a rejection)
\* where cancelDailyReminder returns to
afterCancel(t) ==
    [t EXCEPT !.daily = IF t.reschedule THEN "schedule" ELSE "done"]

\* scheduleDailyReminder / cancelDailyReminder
stepDaily(t, ok) ==
    CASE t.daily = "getString" ->
            IF ok /\ ~IsNull(daily_reminder_id)
            THEN Same([t EXCEPT !.daily = "cancel", !.existingId = daily_reminder_id])
            ELSE Same(afterCancel(t))
      [] t.daily = "cancel" ->
            IF ok
            THEN [Same([t EXCEPT !.daily = "delete"]) EXCEPT
                    !.scheduled = { n \in scheduled : n.id # Val(t.existingId) }]
            ELSE Same(afterCancel(t))
      [] t.daily = "delete" ->
            IF ok
            THEN [Same(afterCancel(t)) EXCEPT !.dailyId = Null]
            ELSE Same(afterCancel(t))
      [] t.daily = "schedule" ->
            IF ok
            THEN [Same([t EXCEPT !.daily = "set", !.identifier = Some(nextId + 1)]) EXCEPT
                    !.scheduled = scheduled \cup
                        { dailyRequest(nextId + 1, Val(t.settings).dailyReminder.time) },
                    !.nextId = nextId + 1]
            ELSE Same([t EXCEPT !.daily = "done"])
      [] t.daily = "set" ->
            IF ok
            THEN [Same([t EXCEPT !.daily = "done"]) EXCEPT !.dailyId = t.identifier]
            ELSE Same([t EXCEPT !.daily = "done"])

\* scheduleWeeklyProgress
stepWeekly(t, ok) ==
    IF ok
    THEN [Same([t EXCEPT !.weekly = "done"]) EXCEPT
            !.scheduled = scheduled \cup
                { weeklyRequest(nextId + 1, Val(t.settings).weeklyProgress.day,
                                Val(t.settings).weeklyProgress.time) },
            !.nextId = nextId + 1]
    ELSE Same([t EXCEPT !.weekly = "done"])

\* saveSettings, scheduleAllNotifications, cancelAllNotifications,
\* scheduleGraceReminder, sendStreakCelebration and handleAppForeground
stepMain(t, ok) ==
    CASE t.pc = "set" ->
            \* saveSettings: storage.set, then scheduleAllNotifications()
            \* is started and not awaited
            IF ok
            THEN [Same([t EXCEPT !.pc = "cancelAll"]) EXCEPT !.settings = t.value]
            ELSE Same([t EXCEPT !.pc = "end"])
      [] t.pc = "read" ->
            \* getSettings: storage.getString, whose rejection is caught
            \* and answered with DEFAULT_SETTINGS
            IF ok
            THEN Same([t EXCEPT !.pc = "end",
                                !.result = Some(getSettings(notification_settings))])
            ELSE Same([t EXCEPT !.pc = "end", !.result = Some(DEFAULT_SETTINGS)])
      [] t.pc = "cancelAll" ->
            IF ok
            THEN [Same([t EXCEPT !.pc = "hasPermissions"]) EXCEPT !.scheduled = {}]
            ELSE Same([t EXCEPT !.pc = "end"])
      [] t.pc = "hasPermissions" ->
            \* hasPermissions() answers false when getPermissionsAsync rejects
            IF ok /\ permission
            THEN Same(scheduleWeeklyProgress(scheduleDailyReminder(
                        [t EXCEPT !.pc = "all", !.granted = TRUE])))
            ELSE Same([t EXCEPT !.pc = "end"])
      [] t.pc = "cancelOnly" ->
            IF ok
            THEN [Same([t EXCEPT !.pc = "end"]) EXCEPT !.scheduled = {}]
            ELSE Same([t EXCEPT !.pc = "end"])
      [] t.pc = "graceSchedule" ->
            LET after == IF t.op = "handleAppForeground" THEN "badge" ELSE "end"
            IN  IF ok
                THEN [Same([t EXCEPT !.pc = after]) EXCEPT
                        !.scheduled = scheduled \cup { graceRequest(nextId + 1, t.trigger) },
                        !.nextId = nextId + 1]
                ELSE Same([t EXCEPT !.pc = after])
      [] t.pc = "badge" ->
            Same([t EXCEPT !.pc = "end"])
      [] t.pc = "send" ->
            IF ok
            THEN [Same([t EXCEPT !.pc = "end"]) EXCEPT
                    !.delivered = Append(delivered,
                        [ type |-> "streak_celebration", streakDays |-> Val(t.arg),
                          body |-> bodyFor(Val(t.arg)) ])]
            ELSE Same([t EXCEPT !.pc = "end"])

\* the operation of slot r has returned and whatever it started has settled
Finished(t) ==
    \/ t.pc = "end"
    \/ t.pc = "all" /\ t.daily = "done" /\ t.weekly = "done"

\* ---- actions of the notification code
\* an operation is running in one of the slots rs
Busy(rs) == \E q \in rs : task[q].op # "none"

\* one of the operations ops is called in slot r, saveSettings with one
\* of the settings objects inputs; `overlapped` notes on every operation
\* whether another one was running at some time while it ran
Call(r, ops, inputs) ==
    /\ task[r].op = "none"
    /\ \E op \in ops : \E arg \in Arguments(op, inputs) :
        task' = [q \in Runs |->
                    IF q = r
                    THEN [begin(op, arg, clock) EXCEPT !.overlapped = Busy(Runs \ {r})]
                    ELSE [task[q] EXCEPT !.overlapped = @ \/ task[q].op # "none"]]
    /\ UNCHANGED <<permission, notification_settings, daily_reminder_id, scheduled,
                   nextId, delivered, lastDone>>
    /\ UNCHANGED <<clock, setBacks, user_profile, user_progress, app_state, photosDir, pc, frame>>
    /\ UNCHANGED screens

\* the operation in slot r goes on from one of the awaits it stands at,
\* or, when it is through, leaves the slot
Step(r) ==
    /\ task[r].op # "none"
    /\ \E role \in {"main", "daily", "weekly"}, ok \in BOOLEAN :
        LET t == task[r]
            leaves == role = "main" /\ Finished(t)
            ready == CASE role = "main" -> t.pc \notin {"idle", "all"} \/ leaves
                       [] role = "daily" -> t.daily \notin {"idle", "done"}
                       [] role = "weekly" -> t.weekly = "schedule"
            next == IF leaves THEN Same(NoTask)
                    ELSE CASE role = "main" -> stepMain(t, ok)
                           [] role = "daily" -> stepDaily(t, ok)
                           [] role = "weekly" -> stepWeekly(t, ok)
        IN  /\ ready
            /\ leaves => ok
            /\ next.nextId <= MaxIds
            /\ Len(next.delivered) <= MaxIds
            /\ task' = [task EXCEPT ![r] = next.task]
            /\ notification_settings' = next.settings
            /\ daily_reminder_id' = next.dailyId
            /\ scheduled' = next.scheduled
            /\ nextId' = next.nextId
            /\ delivered' = next.delivered
            /\ lastDone' = IF leaves
                           THEN [ op |-> t.op, arg |-> t.arg, overlapped |-> t.overlapped,
                                  day |-> calendarDay(clock),
                                  again |-> /\ lastDone.op = t.op
                                            /\ lastDone.day = calendarDay(clock) ]
                           ELSE lastDone
    /\ UNCHANGED permission
    /\ UNCHANGED <<clock, setBacks, user_profile, user_progress, app_state, photosDir, pc, frame>>
    /\ UNCHANGED screens

\* ---- PhotoPreviewScreen
\* the slot of the sendStreakCelebration call that handleSave awaits
Own == "r2"

\* handleSave up to its await of savePhoto: the save button is disabled
\* while an earlier handleSave is running
HandleSaveStart ==
    /\ pc[App] \in {"idle", "saved", "failed"}
    /\ task[Own].op = "none"
    /\ SavePhotoRead(App)

\* the celebration block without its test of currentStreak > 0
celebrationCheckUntested(currentStreak, settings) ==
    IF IsNull(settings) THEN "throw"
    ELSE IF includes(Val(settings).streakCelebration.milestones, currentStreak)
         THEN "send"
         ELSE "skip"

\* the celebration block of handleSave: whether it is skipped, throws
\* (a field of a field of the un-awaited settings is read) or awaits
\* sendStreakCelebration
celebrationCheck(currentStreak, settings) ==
    IF currentStreak > 0
    THEN IF IsNull(settings) THEN "throw"
         ELSE IF includes(Val(settings).streakCelebration.milestones, currentStreak)
              THEN "send"
              ELSE "skip"
    ELSE "skip"

\* handleSave from the return of savePhoto to its alert: 'Photo Saved!'
\* ("saved") at the end of the try block, 'Error' ("failed") from the
\* catch, which a rejected savePhoto and anything thrown after it reach.
\* getUserProgress() and getSettings() are async and not awaited here:
\* `progress.currentStreak` of the Promise is undefined and
\* `undefined > 0` is false.  An awaited sendStreakCelebration catches
\* its own errors and returns.
handleSave ==
    /\ pc[App] \in {"resolved", "rejected", "celebrating"}
    /\ pc[App] = "celebrating" => task[Own].op = "none"
    /\ LET progress == unawaited(getUserProgress(user_progress))
           settings == unawaited(getSettings(notification_settings))
           currentStreak == IF IsNull(progress) \/ IsNull(Val(progress))
                            THEN 0
                            ELSE Val(Val(progress)).currentStreak
           check == celebrationCheck(currentStreak, settings)
       IN  CASE pc[App] = "rejected" ->
                    /\ pc' = [pc EXCEPT ![App] = "failed"]
                    /\ task' = task
             [] pc[App] = "celebrating" ->
                    /\ pc' = [pc EXCEPT ![App] = "saved"]
                    /\ task' = task
             [] pc[App] = "resolved" /\ check = "send" ->
                    /\ pc' = [pc EXCEPT ![App] = "celebrating"]
                    /\ task' = [task EXCEPT ![Own] =
                            begin("sendStreakCelebration", Some(currentStreak), clock)]
             [] pc[App] = "resolved" /\ check = "throw" ->
                    /\ pc' = [pc EXCEPT ![App] = "failed"]
                    /\ task' = task
             [] pc[App] = "resolved" /\ check = "skip" ->
                    /\ pc' = [pc EXCEPT ![App] = "saved"]
                    /\ task' = task
    /\ frame' = [frame EXCEPT ![App] = NoFrame]
    /\ UNCHANGED <<permission, notification_settings, daily_reminder_id, scheduled,
                   nextId, delivered, lastDone>>
    /\ UNCHANGED <<clock, setBacks, user_profile, user_progress, app_state, photosDir>>
    /\ UNCHANGED screens

\* the user grants or withdraws the notification permission
SetPermission ==
    /\ permission' = ~permission
    /\ UNCHANGED <<notification_settings, daily_reminder_id, scheduled, nextId,
                   delivered, task, lastDone>>
    /\ UNCHANGED <<clock, setBacks, user_profile, user_progress, app_state, photosDir, pc, frame>>
    /\ UNCHANGED screens

\* Another sender of the app schedules a notification of its own through
\* expo-notifications: the OS keeps it in the same list that
\* getAllScheduledNotificationsAsync returns and
\* cancelAllScheduledNotificationsAsync empties.
OtherSender ==
    /\ nextId < MaxIds
    /\ scheduled' = scheduled \cup
            { [ id |-> nextId + 1, type |-> "other",
                trigger |-> [ weekday |-> 0, hour |-> 0, minute |-> 0,
                              repeats |-> FALSE, date |-> 0 ] ] }
    /\ nextId' = nextId + 1
    /\ UNCHANGED <<permission, notification_settings, daily_reminder_id, delivered,
                   task, lastDone>>
    /\ UNCHANGED <<clock, setBacks, user_profile, user_progress, app_state, photosDir, pc, frame>>
    /\ UNCHANGED screens

\* the selection of the celebration text in sendStreakCelebration, for
\* a streak that has passed its checks of the settings
SelectCopy ==
    /\ \E streakDays \in 0..MaxStreak :
            copy' = Some([ streakDays |-> streakDays, body |-> bodyFor(streakDays) ])
    /\ UNCHANGED initState
    /\ UNCHANGED notification
    /\ UNCHANGED <<clock, setBacks, user_profile, user_progress, app_state, photosDir, pc, frame>>

\* ------------------------------------------------------- specifications
\* The app: PhotoPreviewScreen.handleSave is the only caller of savePhoto
\* and its button is disabled while a save is running, so one call is in
\* flight at a time.
Next ==
    \/ Tick
    \/ initializeUser
    \/ SavePhotoRead(App)
    \/ SavePhotoCopy(App)
    \/ SavePhotoWrite(App)
    \/ clearAllData

Spec == Init /\ [][Next]_vars

\* the onboarding flow: initializeUser on an installation without progress
Onboarding ==
    /\ IsNull(user_progress)
    /\ initializeUser

\* The app on a device whose clock is also set back between the steps.
NextClock ==
    \/ TickWithin
    \/ ClockBack
    \/ Onboarding
    \/ SavePhotoRead(App)
    \/ SavePhotoCopy(App)
    \/ SavePhotoWrite(App)

SpecClock == Init /\ [][NextClock]_vars

\* StorageService called without the button's guard: two calls of
\* savePhoto whose awaits interleave, on an onboarded installation.
NextOverlap ==
    \/ TickWithin
    \/ Onboarding
    \/ \E c \in Calls : SavePhotoRead(c)
    \/ \E c \in Calls : SavePhotoCopy(c)
    \/ \E c \in Calls : SavePhotoWrite(c)

SpecOverlap == Init /\ [][NextOverlap]_vars

\* The operations of NotificationService called one after the other, each
\* run until it and the reschedule it started have settled.
PublicOperations ==
    { "saveSettings", "scheduleAllNotifications", "scheduleDailyReminder",
      "cancelDailyReminder", "scheduleWeeklyProgress", "scheduleGraceReminder",
      "cancelAllNotifications" }

NextNotify ==
    \/ SetPermission
    \/ Call(Sole, PublicOperations, SettingsInputs)
    \/ Step(Sole)

SpecNotify == Init /\ [][NextNotify]_vars

\* Operations that start a reschedule, called while another is still
\* running: saveSettings does not await the scheduleAllNotifications it
\* starts, and the settings screen calls it once per switch.
NextReschedule ==
    \/ SetPermission
    \/ \E r \in Runs : Call(r, {"saveSettings", "scheduleAllNotifications"}, RescheduleInputs)
    \/ \E r \in Runs : Step(r)

SpecReschedule == Init /\ [][NextReschedule]_vars

\* The app coming to the foreground (useNotifications) on an onboarded
\* installation on which photos are saved and settings are changed.
NextForeground ==
    \/ TickWithin
    \/ Onboarding
    \/ SavePhotoRead(App)
    \/ SavePhotoCopy(App)
    \/ SavePhotoWrite(App)
    \/ Call(Sole, {"handleAppForeground", "saveSettings"}, ForegroundInputs)
    \/ Step(Sole)

SpecForeground == Init /\ [][NextForeground]_vars

\* The save button of the photo preview screen, with the celebration
\* switch changed and streaks celebrated through the hook (celebrateStreak)
\* in between.
NextSave ==
    \/ TickWithin
    \/ Onboarding
    \/ HandleSaveStart
    \/ SavePhotoCopy(App)
    \/ SavePhotoWrite(App)
    \/ handleSave
    \/ Call(Sole, {"sendStreakCelebration", "saveSettings"}, CelebrationInputs)
    \/ \E r \in Runs : Step(r)

SpecSave == Init /\ [][NextSave]_vars

\* saveSettings and scheduleAllNotifications on a device on which other
\* senders hold scheduled notifications too.
NextOthers ==
    \/ SetPermission
    \/ OtherSender
    \/ Call(Sole, {"saveSettings", "scheduleAllNotifications"}, RescheduleInputs)
    \/ Step(Sole)

SpecOthers == Init /\ [][NextOthers]_vars

\* The settings store of NotificationService: settings objects saved as
\* they come, partial updates, and reads.
NextSettings ==
    \/ Call(Sole, {"saveSettings", "updateSettings", "getSettings"}, EditedInputs)
    \/ Step(Sole)

SpecSettings == Init /\ [][NextSettings]_vars

\* The celebration text selected for each streak.
NextTiers == SelectCopy

SpecTiers == Init /\ [][NextTiers]_vars

\* The save button alone, with streaks celebrated through the hook in
\* between and the settings left as installed.
NextSaveFlow ==
    \/ TickWithin
    \/ Onboarding
    \/ HandleSaveStart
    \/ SavePhotoCopy(App)
    \/ SavePhotoWrite(App)
    \/ handleSave
    \/ Call(Sole, {"sendStreakCelebration"}, CelebrationInputs)
    \/ \E r \in Runs : Step(r)

SpecSaveFlow == Init /\ [][NextSaveFlow]_vars

\* The reset of all data (ProfileScreen.handleResetData) on an
\* installation that is onboarded, saves photos and has its notifications
\* rescheduled.
NextReset ==
    \/ Onboarding
    \/ SavePhotoRead(App)
    \/ SavePhotoCopy(App)
    \/ SavePhotoWrite(App)
    \/ clearAllData
    \/ SetPermission
    \/ Call(Sole, {"scheduleAllNotifications"}, RescheduleInputs)
    \/ Step(Sole)

SpecReset == Init /\ [][NextReset]_vars

\* The useStorageInitialization hook on an installation on which photos
\* are saved: the check on mount, onboarding and reset.
NextInit ==
    \/ TickWithin
    \/ checkInitialization
    \/ useInitializeUser
    \/ resetUser
    \/ SavePhotoRead(App)
    \/ SavePhotoCopy(App)
    \/ SavePhotoWrite(App)

SpecInit == Init /\ [][NextInit]_vars

\* ============================================================ properties
Progress == Val(user_progress)
HasProgress == ~IsNull(user_progress)
Max(a, b) == IF a > b THEN a ELSE b

\* the step on which call c writes user_progress and resolves
Commits(c) == pc[c] = "write" /\ pc'[c] = "resolved"
\* a step on which call c rejects
Rejects(c) == pc'[c] = "rejected" /\ <<pc[c], frame[c]>> # <<pc'[c], frame'[c]>>
\* call c is about to write a capture made at the current instant, after
\* an earlier capture recorded in the progress it read
FollowsCapture(c) ==
    /\ pc[c] = "write"
    /\ Val(frame[c].progress).lastPhotoDate # NullDate
\* calendar days from the last capture the call read to its own capture
DaysSinceLast(c) ==
    calendarDay(clock) - calendarDay(Val(frame[c].progress).lastPhotoDate)

\* C1: after initializeUser and the first successful savePhoto at instant
\* T0 the stored record has dayNumber 1 and the persisted progress has
\* currentStreak 1 and startDate T0.
C1_FirstPhoto ==
    (HasProgress /\ Progress.totalPhotos = 1) =>
        /\ Progress.photos[1].dayNumber = 1
        /\ Progress.currentStreak = 1
        /\ Progress.startDate = Progress.photos[1].timestamp

\* C2: a successful savePhoto captured on exactly the next calendar day
\* after the previous lastPhotoDate leaves currentStreak one higher than
\* before the call.
C2_NextDayIncrements ==
    [][\A c \in Calls :
        (Commits(c) /\ FollowsCapture(c) /\ HasProgress /\ DaysSinceLast(c) = 1)
            => Val(user_progress').currentStreak = Progress.currentStreak + 1]_vars

\* C3: a successful savePhoto captured two or more calendar days after the
\* previous lastPhotoDate leaves currentStreak = 1 and longestStreak at its
\* earlier maximum.
C3_GapResets ==
    [][\A c \in Calls :
        (Commits(c) /\ FollowsCapture(c) /\ HasProgress /\ DaysSinceLast(c) >= 2)
            => /\ Val(user_progress').currentStreak = 1
               /\ Val(user_progress').longestStreak = Max(Progress.longestStreak, 1)]_vars

\* C4: a successful savePhoto captured on the calendar day of the previous
\* lastPhotoDate leaves currentStreak as it was: later photos of a day
\* never count again.
C4_SameDayUnchanged ==
    [][\A c \in Calls :
        (Commits(c) /\ FollowsCapture(c) /\ HasProgress /\ DaysSinceLast(c) = 0)
            => Val(user_progress').currentStreak = Progress.currentStreak]_vars

\* C4 witness: two photos of one calendar day are stored
C4_Witness ==
    /\ HasProgress
    /\ Progress.totalPhotos = 2
    /\ calendarDay(Progress.photos[1].timestamp) = calendarDay(Progress.photos[2].timestamp)
    /\ Progress.lastPhotoDate = Progress.photos[2].timestamp

\* ---- C5: the streak transition and fold of the specification (4.2)
EmptyState ==
    [ currentStreak |-> 0, longestStreak |-> 0, totalPhotos |-> 0,
      lastPhotoDate |-> NullDate ]

recompute(state, t) ==
    LET daysSinceLast == calendarDay(t) - calendarDay(state.lastPhotoDate)
        current == IF state.totalPhotos = 0 THEN 1
                   ELSE IF daysSinceLast = 0 THEN state.currentStreak
                   ELSE IF daysSinceLast = 1 THEN state.currentStreak + 1
                   ELSE 1
    IN  [ currentStreak |-> current,
          longestStreak |-> Max(state.longestStreak, current),
          totalPhotos   |-> state.totalPhotos + 1,
          lastPhotoDate |-> t ]

RECURSIVE foldHistory(_)
foldHistory(times) ==
    IF times = << >> THEN EmptyState
    ELSE recompute(foldHistory(SubSeq(times, 1, Len(times) - 1)), times[Len(times)])

\* the capture instants of the records, in ascending order
RECURSIVE ascending(_)
ascending(times) ==
    IF times = << >> THEN << >>
    ELSE LET m == CHOOSE i \in 1..Len(times) : \A j \in 1..Len(times) : times[i] <= times[j]
         IN  <<times[m]>> \o ascending(SubSeq(times, 1, m - 1) \o SubSeq(times, m + 1, Len(times)))

captureTimes(photos) == [i \in 1..Len(photos) |-> photos[i].timestamp]

\* C5: the persisted progress equals the fold of the specified streak
\* transition, from the empty state, over the stored records ordered by
\* capture time.
C5_FoldOfHistory ==
    HasProgress =>
        LET folded == foldHistory(ascending(captureTimes(Progress.photos)))
        IN  /\ Progress.currentStreak = folded.currentStreak
            /\ Progress.longestStreak = folded.longestStreak
            /\ Progress.totalPhotos = folded.totalPhotos
            /\ Progress.lastPhotoDate = folded.lastPhotoDate

\* C6: in every persisted progress longestStreak >= currentStreak >= 0, and
\* no successful savePhoto lowers longestStreak.
C6_LongestBoundsCurrent ==
    /\ [](HasProgress => /\ Progress.longestStreak >= Progress.currentStreak
                         /\ Progress.currentStreak >= 0)
    /\ [][\A c \in Calls :
            (Commits(c) /\ HasProgress)
                => Val(user_progress').longestStreak >= Progress.longestStreak]_vars

\* C6 witness: photos of two different calendar days are stored
C6_Witness ==
    /\ HasProgress
    /\ Progress.totalPhotos = 2
    /\ calendarDay(Progress.photos[1].timestamp) < calendarDay(Progress.photos[2].timestamp)
    /\ Progress.longestStreak >= Progress.currentStreak

\* C7: whatever the interleaving, a savePhoto that returns successfully
\* has added its record to the persisted list without losing a record that
\* was persisted, and totalPhotos has grown by one.
C7_NoLostAppend ==
    [][\A c \in Calls :
        (Commits(c) /\ HasProgress)
            => LET new == Val(user_progress')
               IN  /\ Len(new.photos) = Len(Progress.photos) + 1
                   /\ SubSeq(new.photos, 1, Len(Progress.photos)) = Progress.photos
                   /\ new.photos[Len(new.photos)].id = frame[c].photoId
                   /\ new.totalPhotos = Progress.totalPhotos + 1]_vars

\* C7 amended: a savePhoto that returns successfully and whose read of
\* user_progress is still the persisted value when it writes (no other
\* write landed in between) has added its record without losing any.
C7_SerializedAppend ==
    [][\A c \in Calls :
        (Commits(c) /\ HasProgress /\ frame[c].progress = user_progress)
            => LET new == Val(user_progress')
               IN  /\ Len(new.photos) = Len(Progress.photos) + 1
                   /\ SubSeq(new.photos, 1, Len(Progress.photos)) = Progress.photos
                   /\ new.photos[Len(new.photos)].id = frame[c].photoId
                   /\ new.totalPhotos = Progress.totalPhotos + 1]_vars

\* C7 witness: both calls have returned successfully and both records are
\* persisted
C7_Witness ==
    /\ \A c \in Calls : pc[c] = "resolved"
    /\ HasProgress
    /\ Progress.totalPhotos = 2
    /\ Len(Progress.photos) = 2

\* C8: a savePhoto that rejects (failed copy, failed write of
\* user_progress, no user_progress) leaves the persisted progress as it was.
C8_RejectKeepsProgress ==
    [][\A c \in Calls : Rejects(c) => user_progress' = user_progress]_vars

\* C8 witness: a call has rejected on its copy or on its write while
\* photos were persisted
C8_Witness ==
    /\ pc[App] = "rejected"
    /\ frame[App].error \in {"copyAsync", "setItem"}
    /\ HasProgress
    /\ Progress.totalPhotos >= 1

\* the capture of call c falls on a calendar day before the last capture
Backdated(c) == FollowsCapture(c) /\ DaysSinceLast(c) < 0

C10_DayNumberRule ==
    HasProgress =>
        \A i \in 1..Len(Progress.photos) :
            LET photo == Progress.photos[i]
            IN  /\ photo.dayNumber = Max(1, Ceil(photo.timestamp - Progress.startDate, DayTicks))
                /\ photo.dayNumber >= 1

\* C11: once startDate has been written, no initializeUser or savePhoto
\* call changes it: while a progress object stays stored its startDate is
\* the same before and after every step.
C11_StartDateImmutable ==
    [][(HasProgress /\ ~IsNull(user_progress'))
            => Val(user_progress').startDate = Progress.startDate]_vars

\* C12: the ids of the stored photo records are pairwise distinct, also
\* for two captures of one angle at one clock instant.
C12_DistinctIds ==
    HasProgress =>
        \A i, j \in 1..Len(Progress.photos) :
            i # j => Progress.photos[i].id # Progress.photos[j].id

\* C13: in every persisted progress totalPhotos equals the number of
\* records in the photos list.
C13_TotalIsCount ==
    HasProgress => Progress.totalPhotos = Len(Progress.photos)

\* C13 witness: a progress with as many records as the model stores, each
\* counted
C13_Witness ==
    /\ HasProgress
    /\ Len(Progress.photos) = MaxPhotos
    /\ Progress.totalPhotos = MaxPhotos

\* ---- notifications
\* the step on which the operation op of slot r leaves the slot: it has
\* returned and the runs it started have settled
Completes(r, op) == task[r].op = op /\ task'[r].op = "none"
\* the live scheduled notifications of one type, now and after the step
live(type) == { n \in scheduled : n.type = type }
liveNext(type) == { n \in scheduled' : n.type = type }
\* n repeats daily at the 'HH:MM' time
DailyAt(n, time) ==
    /\ n.trigger.repeats
    /\ n.trigger.hour = splitTime(time)[1]
    /\ n.trigger.minute = splitTime(time)[2]
\* n repeats weekly on the day (0-6, Sunday first) at the 'HH:MM' time
WeeklyAt(n, day, time) ==
    /\ DailyAt(n, time)
    /\ n.trigger.weekday = day + 1

\* C14: when scheduleAllNotifications has completed: without permission
\* no daily and no weekly notification is live; with permission a
\* repeating daily reminder at dailyReminder.time is live exactly when
\* dailyReminder.enabled, and a repeating weekly notification at
\* (weeklyProgress.day, weeklyProgress.time) exactly when
\* weeklyProgress.enabled.
C14_RescheduleResult ==
    [][\A r \in Runs :
        Completes(r, "scheduleAllNotifications") =>
            LET settings == getSettings(notification_settings)
                daily == liveNext("daily_reminder")
                weekly == liveNext("weekly_progress")
            IN  IF task[r].granted
                THEN /\ IF settings.dailyReminder.enabled
                        THEN /\ Cardinality(daily) = 1
                             /\ \A n \in daily : DailyAt(n, settings.dailyReminder.time)
                        ELSE daily = {}
                     /\ IF settings.weeklyProgress.enabled
                        THEN /\ Cardinality(weekly) = 1
                             /\ \A n \in weekly :
                                    WeeklyAt(n, settings.weeklyProgress.day,
                                             settings.weeklyProgress.time)
                        ELSE weekly = {}
                ELSE ~permission => (daily = {} /\ weekly = {})]_vars

\* C15: with permission granted, when saveSettings with
\* dailyReminder.enabled = true completes (its reschedule run to the end)
\* after a completed saveSettings with dailyReminder.enabled = false,
\* exactly one daily reminder is live.
C15_ReenabledDaily ==
    [][\A r \in Runs :
        ( /\ Completes(r, "saveSettings")
          /\ task[r].granted
          /\ notification_settings = task[r].arg
          /\ Val(task[r].arg).dailyReminder.enabled
          /\ lastDone.op = "saveSettings"
          /\ ~Val(lastDone.arg).dailyReminder.enabled )
            => Cardinality(liveNext("daily_reminder")) = 1]_vars

photoTakenOn(day) ==
    /\ HasProgress
    /\ \E i \in 1..Len(Progress.photos) :
            calendarDay(Progress.photos[i].timestamp) = day
\* the three conditions of the grace reminder, at the current instant
GraceDue ==
    LET settings == getSettings(notification_settings)
    IN  /\ settings.graceReminder.enabled
        /\ ~photoTakenOn(calendarDay(clock))
        /\ pastReminderTime(clock, settings.dailyReminder.time)
\* the calendar day on which a live grace reminder was scheduled (every
\* settings object in use has the default hoursAfterMissed)
scheduledDay(n) ==
    (n.trigger.date - DEFAULT_SETTINGS.graceReminder.hoursAfterMissed) \div 24

Celebrated(streakDays) ==
    LET settings == getSettings(notification_settings)
    IN  /\ settings.streakCelebration.enabled
        /\ includes(settings.streakCelebration.milestones, streakDays)

\* C20: when a saved photo has brought currentStreak to n, and whenever
\* sendStreakCelebration is handed a streak n, an immediate celebration
\* goes out (one, for n) if streakCelebration.enabled and n is in
\* streakCelebration.milestones, and none otherwise.
C20_MilestoneCelebrated ==
    [][/\ \A r \in Runs :
            (task[r].op = "none" /\ task'[r].op = "sendStreakCelebration")
                => (task'[r].pc = "send" <=> Celebrated(Val(task'[r].arg)))
       /\ (pc[App] = "resolved" /\ pc'[App] # "resolved" /\ HasProgress)
                => (task'[Own].op = "sendStreakCelebration"
                        <=> Celebrated(Progress.currentStreak))
       /\ \A r \in Runs :
            (task[r].op = "sendStreakCelebration" /\ delivered' # delivered)
                => /\ task[r].pc = "send"
                   /\ delivered' = Append(delivered,
                            [ type |-> "streak_celebration",
                              streakDays |-> Val(task[r].arg),
                              body |-> bodyFor(Val(task[r].arg)) ])]_vars

\* ---- other senders
\* the kinds of scheduled notification NotificationService makes
OwnKinds == {"daily_reminder", "weekly_progress", "grace_reminder"}

\* C21: saveSettings and scheduleAllNotifications cancel only the
\* engine's own daily, weekly and grace notifications: a scheduled
\* notification of any other kind that is live before a step of either
\* operation is still live after it.
C21_OthersKept ==
    [][\A r \in Runs :
            task[r].op \in {"saveSettings", "scheduleAllNotifications"}
                => \A n \in scheduled : n.type \notin OwnKinds => n \in scheduled']_vars

\* ---- the settings store
\* a 24-hour time of day HH:MM
ValidTime(time) ==
    /\ Len(time) = 5
    /\ time[3] = ":"
    /\ \A i \in {1, 2, 4, 5} : isDigit(time[i])
    /\ Number(SubSeq(time, 1, 2)) <= 23
    /\ Number(SubSeq(time, 4, 5)) <= 59
\* no milestone occurs twice
NoDuplicates(milestones) ==
    \A i, j \in 1..Len(milestones) : milestones[i] = milestones[j] => i = j

\* C22: saveSettings rejects a settings object with a malformed time of
\* day or a duplicate milestone and keeps the previous settings, so the
\* stored settings have valid HH:MM times and duplicate-free milestones.
C22_StoredValid ==
    ~IsNull(notification_settings) =>
        LET stored == Val(notification_settings)
        IN  /\ "dailyReminder" \in DOMAIN stored => ValidTime(stored.dailyReminder.time)
            /\ "weeklyProgress" \in DOMAIN stored => ValidTime(stored.weeklyProgress.time)
            /\ "streakCelebration" \in DOMAIN stored
                    => NoDuplicates(stored.streakCelebration.milestones)

\* the step on which getSettings of slot r returns from its storage read
Reads(r) == task[r].op = "getSettings" /\ task[r].pc = "read" /\ task'[r] # task[r]

\* C23: getSettings never throws, and with no settings stored it returns
\* the defaults: daily reminder enabled at 18:00, celebration enabled
\* with milestones 3, 7, 14, 30, 60, 90, 180, 365, weekly progress
\* enabled on Sunday at 10:00, grace reminder enabled after 12 hours.
C23_DefaultsWhenEmpty ==
    [][\A r \in Runs : Reads(r) =>
            /\ task'[r].pc = "end"
            /\ ~IsNull(task'[r].result)
            /\ IsNull(notification_settings) =>
                    Val(task'[r].result) =
                        [ dailyReminder |->
                            [ enabled |-> TRUE, time |-> <<"1", "8", ":", "0", "0">> ],
                          streakCelebration |->
                            [ enabled |-> TRUE,
                              milestones |-> <<3, 7, 14, 30, 60, 90, 180, 365>> ],
                          weeklyProgress |->
                            [ enabled |-> TRUE, day |-> 0,
                              time |-> <<"1", "0", ":", "0", "0">> ],
                          graceReminder |->
                            [ enabled |-> TRUE, hoursAfterMissed |-> 12 ] ]]_vars
\* getSettings has returned the defaults on an installation with no
\* settings stored
C23_Witness ==
    /\ task[Sole].op = "getSettings"
    /\ task[Sole].pc = "end"
    /\ IsNull(notification_settings)
    /\ ~IsNull(task[Sole].result)
    /\ Val(task[Sole].result).dailyReminder.enabled

\* ---- celebration text
\* C24: sendStreakCelebration selects the text by the size of the
\* streak: up to 7 days the encouragement text, 8 to 30 the consistency
\* text, 31 to 90 the achievement text, above 90 the legendary text.
C24_CopyByMagnitude ==
    ~IsNull(copy) =>
        LET n == Val(copy).streakDays
            body == Val(copy).body
        IN  /\ n <= 7 <=> body = "You're building momentum! Keep going strong!"
            /\ (8 <= n /\ n <= 30)
                    <=> body = "Amazing consistency! Your dedication is showing results!"
            /\ (31 <= n /\ n <= 90)
                    <=> body = "Incredible! You're a progress tracking champion!"
            /\ n > 90 <=> body = "LEGENDARY! You're an inspiration to everyone!"
\* the text for a streak of 7 days is selected, the last of its tier
C24_Witness ==
    /\ ~IsNull(copy)
    /\ Val(copy).streakDays = 7
    /\ Val(copy).body = "You're building momentum! Keep going strong!"

Ordered ==
    \A i, j \in 1..Len(Progress.photos) :
        i < j => Progress.photos[i].timestamp <= Progress.photos[j].timestamp

C27_OtherGroupsKept ==
    [][\A r \in Runs :
            (/\ task[r].op = "updateSettings"
             /\ task[r].pc = "set"
             /\ task'[r].pc = "cancelAll")
                => getSettings(notification_settings')
                        = spread(Some(getSettings(notification_settings)), Val(task[r].arg))]_vars

\* ---- reset
\* a step on which clearAllData resolves, having had something to clear
Clears ==
    /\ ~IsNull(user_profile) \/ HasProgress \/ ~IsNull(app_state) \/ photosDir
    /\ IsNull(user_profile') /\ IsNull(user_progress') /\ IsNull(app_state')
    /\ ~photosDir'

C30_InitializedOnlyWithProfile ==
    [][(checkInitialization /\ IsNull(user_profile))
            => (~initState'.isInitialized /\ initState'.needsOnboarding)]_vars

====
